---- MODULE Spec2Model ----
(***************************************************************************)
(* Model of aave.py: a polling loop (aave_crypto_bot) that once per cycle  *)
(* runs make_decision, which fetches a liquidity payload and a balance     *)
(* over HTTP and, on two threshold comparisons, posts a deposit and/or a   *)
(* borrow request.  Every await of the coroutine is a separate step; the   *)
(* remote service is the environment and answers each call with one of a   *)
(* small set of responses.                                                 *)
(***************************************************************************)
EXTENDS Integers, Sequences, FiniteSets, TLC

VARIABLES
    pc,                 \* position of the single coroutine
    liquidity,          \* make_decision's local `liquidity`
    available_balance,  \* make_decision's local `available_balance`
    exc,                \* exception that escaped to the event loop, or "none"
    inFlight,           \* outbound HTTP calls awaiting their response
    sent,               \* requests issued in the current cycle, in order
    log,                \* log records written in the current cycle, in order
    liqResp, balResp, depResp, borResp,  \* responses received in the cycle
    invocationsSinceSleep,   \* make_decision calls since the last completed sleep
    sleepsSinceInvocation,   \* completed sleeps since the last make_decision call
    invoked                  \* make_decision has been called at least once

vars == <<pc, liquidity, available_balance, exc, inFlight, sent, log,
          liqResp, balResp, depResp, borResp,
          invocationsSinceSleep, sleepsSinceInvocation, invoked>>

----------------------------------------------------------------------------
(* Bounds of the model *)

\* balances are drawn from within Margin of each threshold
Margin == 1
\* the two history counters saturate at MaxCount
MaxCount == 2

----------------------------------------------------------------------------
(* Module-level settings of aave.py *)

private_key == "your_private_key_here"
amount_to_borrow == 1000
collateral_for_borrow == 2000
asset_to_borrow == "USDT"
loan_duration == 30
amount_to_deposit == 5000
asset_to_deposit == "DAI"

borrow_url == "https://avax-explorer.co/api/aave/borrow"
deposit_url == "https://avax-explorer.co/api/aave/deposit"
liquidity_url == "https://avax-explorer.co/api/aave/liquidity"
balance_url == "https://avax-explorer.co/api/aave/balance"

----------------------------------------------------------------------------
(* JSON values as Python sees them after response.json().                  *)
(* A leaf is a value stored under a key; num is the number, the bool as     *)
(* 0/1, or the length of a string/array/object.                             *)

JNull == [type |-> "null", num |-> 0, str |-> ""]
JBool(b) == [type |-> "bool", num |-> IF b THEN 1 ELSE 0, str |-> ""]
JNum(n) == [type |-> "number", num |-> n, str |-> ""]
JStr(s) == [type |-> "string", num |-> Len(s), str |-> s]
JArr(n) == [type |-> "array", num |-> n, str |-> ""]

NoFields == [k \in {} |-> JNull]

\* a parsed body: a leaf, or an object with fields
Data(leaf) == [type |-> leaf.type, num |-> leaf.num, str |-> leaf.str, fields |-> NoFields]
Obj(f) == [type |-> "object", num |-> Cardinality(DOMAIN f), str |-> "", fields |-> f]

\* Python truth value of a JSON value: None, False, 0, "", [] and {} are false
Truthy(v) ==
    CASE v.type = "null" -> FALSE
      [] v.type = "bool" -> v.num = 1
      [] v.type = "number" -> v.num # 0
      [] OTHER -> v.num > 0

\* data[key]: KeyError on a dict without the key, TypeError on anything
\* that is not a dict (list, str, int, bool, None)
Subscript(data, key) ==
    IF data.type = "object"
    THEN IF key \in DOMAIN data.fields
         THEN [exc |-> "none", val |-> data.fields[key]]
         ELSE [exc |-> "KeyError", val |-> JNull]
    ELSE [exc |-> "TypeError", val |-> JNull]

\* v >= n for an int n: defined on int/float/bool, TypeError otherwise
GreaterEq(v, n) ==
    IF v.type \in {"number", "bool"}
    THEN [exc |-> "none", val |-> v.num >= n]
    ELSE [exc |-> "TypeError", val |-> FALSE]

\* text an f-string produces for a value
Format(v) ==
    CASE v.type = "string" -> v.str
      [] v.type = "null" -> "None"
      [] v.type = "number" -> ToString(v.num)
      [] v.type = "bool" -> IF v.num = 1 THEN "True" ELSE "False"
      [] OTHER -> "[...]"

----------------------------------------------------------------------------
(* The HTTP layer (aiohttp) as the four functions use it *)

\* what the remote end does with one request
Response(transport, status, parses, data) ==
    [transport |-> transport, status |-> status, parses |-> parses, data |-> data]

\* placeholder while a call has not returned in the current cycle
NoResponse == Response(FALSE, -1, FALSE, Data(JNull))

\* exception classes the calls can produce; all derive from Exception
ExceptionClasses ==
    {"ClientConnectionError", "ClientResponseError", "JSONDecodeError",
     "KeyError", "TypeError"}

\* variant: `except aiohttp.ClientError`, which lets KeyError, TypeError and
\* JSON decoding errors through
ExceptClientError(e) == e \in {"ClientConnectionError", "ClientResponseError"}

\* `except Exception as e` of the four functions
ExceptException(e) == e \in ExceptionClasses

\* response.raise_for_status(): raises for a status of 400 and above
raise_for_status(resp) ==
    IF resp.status >= 400 THEN "ClientResponseError" ELSE "none"

\* async with session.get/post(...) as response:
\*     response.raise_for_status(); data = await response.json()
Fetch(resp) ==
    IF ~resp.transport
    THEN [exc |-> "ClientConnectionError", data |-> Data(JNull)]
    ELSE IF raise_for_status(resp) # "none"
    THEN [exc |-> raise_for_status(resp), data |-> Data(JNull)]
    ELSE IF ~resp.parses
    THEN [exc |-> "JSONDecodeError", data |-> Data(JNull)]
    ELSE [exc |-> "none", data |-> resp.data]

LogRecord(fn, level, msg, arg) ==
    [fn |-> fn, level |-> level, msg |-> msg, arg |-> arg]

\* result of a call: the exception it raised to its caller ("none" when it
\* returned), the value returned, the log records it wrote
Result(raised, ret, logs) == [raised |-> raised, ret |-> ret, log |-> logs]

\* the try block of check_balance
check_balance_try(resp) ==
    LET r == Fetch(resp)
        b == Subscript(r.data, "balance")
    IN  IF r.exc # "none" THEN [exc |-> r.exc, val |-> JNull]
        ELSE b

\* variant: the handler returns None where the code returns 0
check_balance_returning_none(asset, resp) ==
    LET t == check_balance_try(resp)
    IN  IF t.exc = "none"
        THEN Result("none", t.val,
                 <<LogRecord("check_balance", "INFO", "Available balance", Format(t.val))>>)
        ELSE Result("none", JNull,
                 <<LogRecord("check_balance", "ERROR", "Error checking balance", t.exc)>>)

check_balance(asset, resp) ==
    LET t == check_balance_try(resp)
    IN  IF t.exc = "none"
        THEN Result("none", t.val,
                 <<LogRecord("check_balance", "INFO", "Available balance", Format(t.val))>>)
        ELSE IF ExceptException(t.exc)
        THEN Result("none", JNum(0),
                 <<LogRecord("check_balance", "ERROR", "Error checking balance", t.exc)>>)
        ELSE Result(t.exc, JNull, <<>>)

get_liquidity(resp) ==
    LET r == Fetch(resp)
    IN  IF r.exc = "none"
        THEN Result("none", r.data,
                 <<LogRecord("get_liquidity", "INFO", "Current liquidity data:", ""),
                   LogRecord("get_liquidity", "INFO", "data", "")>>)
        ELSE IF ExceptException(r.exc)
        THEN Result("none", Data(JNull),
                 <<LogRecord("get_liquidity", "ERROR", "Error fetching liquidity data", r.exc)>>)
        ELSE Result(r.exc, Data(JNull), <<>>)

\* data['status'] == 'success'
IsSuccess(v) == v.type = "string" /\ v.str = "success"

\* the try block shared in shape by borrow_assets and deposit_assets: the
\* exception raised inside it, or the one log record it writes
submit_try(fn, resp, okMsg, failMsg) ==
    LET r == Fetch(resp)
        st == Subscript(r.data, "status")
        tx == Subscript(r.data, "txid")
        ms == Subscript(r.data, "message")
    IN  IF r.exc # "none" THEN [exc |-> r.exc, log |-> <<>>]
        ELSE IF st.exc # "none" THEN [exc |-> st.exc, log |-> <<>>]
        ELSE IF IsSuccess(st.val)
        THEN IF tx.exc # "none" THEN [exc |-> tx.exc, log |-> <<>>]
             ELSE [exc |-> "none",
                   log |-> <<LogRecord(fn, "INFO", okMsg, Format(tx.val))>>]
        ELSE IF ms.exc # "none" THEN [exc |-> ms.exc, log |-> <<>>]
             ELSE [exc |-> "none",
                   log |-> <<LogRecord(fn, "ERROR", failMsg, Format(ms.val))>>]

borrow_assets(resp) ==
    LET t == submit_try("borrow_assets", resp,
                        "Borrowing successful! TXID", "Error borrowing assets")
    IN  IF t.exc = "none" THEN Result("none", JNull, t.log)
        ELSE IF ExceptException(t.exc)
        THEN Result("none", JNull,
                 <<LogRecord("borrow_assets", "ERROR", "Error borrowing request", t.exc)>>)
        ELSE Result(t.exc, JNull, <<>>)

deposit_assets(resp) ==
    LET t == submit_try("deposit_assets", resp,
                        "Deposit successful! TXID", "Error depositing assets")
    IN  IF t.exc = "none" THEN Result("none", JNull, t.log)
        ELSE IF ExceptException(t.exc)
        THEN Result("none", JNull,
                 <<LogRecord("deposit_assets", "ERROR", "Error with deposit request", t.exc)>>)
        ELSE Result(t.exc, JNull, <<>>)

\* requests as sent: payload fields that a request lacks are left at defaults
\* and not named in keys
Request(method, url, keys, amount, collateral, asset, duration) ==
    [method |-> method, url |-> url, keys |-> keys,
     private_key |-> IF "private_key" \in keys THEN private_key ELSE "",
     amount |-> amount, collateral |-> collateral, asset |-> asset,
     duration |-> duration]

balance_request(asset) ==
    Request("GET", balance_url \o "/" \o asset, {}, 0, 0, "", 0)

liquidity_request == Request("GET", liquidity_url, {}, 0, 0, "", 0)

borrow_request(amount, collateral, asset, duration) ==
    Request("POST", borrow_url,
            {"private_key", "amount", "collateral", "asset", "duration"},
            amount, collateral, asset, duration)

deposit_request(amount, asset) ==
    Request("POST", deposit_url, {"private_key", "amount", "asset"},
            amount, 0, asset, 0)

----------------------------------------------------------------------------
(* What the remote service can answer *)

\* responses that fail before a body is parsed: no connection, an error
\* status, a 2xx status with a body that is not JSON
FailedResponses ==
    {Response(FALSE, 0, FALSE, Data(JNull)),
     Response(TRUE, 404, TRUE, Data(JNull)),
     Response(TRUE, 500, FALSE, Data(JNull)),
     Response(TRUE, 200, FALSE, Data(JNull))}

Parsed(data) == Response(TRUE, 200, TRUE, data)

\* a 3xx answer the client does not follow (300, or a redirect without a
\* Location header), carrying a JSON body
Unfollowed(data) == Response(TRUE, 300, TRUE, data)

BalanceNumbers ==
    {0} \cup ((collateral_for_borrow - Margin) .. (collateral_for_borrow + Margin))
        \cup ((amount_to_deposit - Margin) .. (amount_to_deposit + Margin))

BalanceLeaves ==
    {JNum(n) : n \in BalanceNumbers}
        \cup {JNull, JBool(TRUE), JStr("5000"), JArr(0)}

BalanceBodies ==
    {Obj([k \in {"balance"} |-> v]) : v \in BalanceLeaves}
        \cup {Obj(NoFields), Obj([k \in {"error"} |-> JStr("unknown asset")]),
              Data(JNull), Data(JArr(1)), Data(JNum(amount_to_deposit))}

BalanceResponses ==
    FailedResponses \cup {Parsed(d) : d \in BalanceBodies}
        \cup {Unfollowed(Obj([k \in {"balance"} |-> JNum(amount_to_deposit)]))}

LiquidityBodies ==
    {Data(JNull), Data(JBool(FALSE)), Data(JBool(TRUE)), Data(JNum(0)),
     Data(JNum(1000)), Data(JStr("")), Data(JStr("ok")), Data(JArr(0)),
     Data(JArr(2)), Obj(NoFields), Obj([k \in {"USDT"} |-> JNum(1000)])}

LiquidityResponses ==
    FailedResponses \cup {Parsed(d) : d \in LiquidityBodies}
        \cup {Unfollowed(Obj([k \in {"USDT"} |-> JNum(1000)]))}

SubmitFields(status, txid, message) ==
    [k \in (IF status # JNull THEN {"status"} ELSE {})
               \cup (IF txid THEN {"txid"} ELSE {})
               \cup (IF message THEN {"message"} ELSE {}) |->
        CASE k = "status" -> status
          [] k = "txid" -> JStr("0xabc")
          [] OTHER -> JStr("rejected")]

\* a status of JNull below stands for a body without the status field
SubmitBodies ==
    {Obj(SubmitFields(st, tx, ms)) :
        st \in {JNull, JStr("success"), JStr("failed"), JBool(TRUE)},
        tx \in BOOLEAN, ms \in BOOLEAN}
        \cup {Data(JArr(1)), Data(JNull)}

SubmitResponses ==
    FailedResponses \cup {Parsed(d) : d \in SubmitBodies}
        \cup {Unfollowed(Obj(SubmitFields(JStr("success"), TRUE, FALSE))),
              Response(TRUE, 500, TRUE, Obj(SubmitFields(JStr("success"), TRUE, FALSE)))}

----------------------------------------------------------------------------
(* The coroutine aave_crypto_bot and make_decision inlined in it *)

Saturate(n) == IF n < MaxCount THEN n + 1 ELSE MaxCount

Init ==
    /\ pc = "start"
    /\ liquidity = Data(JNull)
    /\ available_balance = JNull
    /\ exc = "none"
    /\ inFlight = {}
    /\ sent = <<>>
    /\ log = <<>>
    /\ liqResp = NoResponse
    /\ balResp = NoResponse
    /\ depResp = NoResponse
    /\ borResp = NoResponse
    /\ invocationsSinceSleep = 0
    /\ sleepsSinceInvocation = 0
    /\ invoked = FALSE

\* aave_crypto_bot up to the head of `while True`
StartBot ==
    /\ pc = "start"
    /\ pc' = "loop"
    /\ log' = <<LogRecord("aave_crypto_bot", "INFO", "Starting the Aave crypto bot", "")>>
    /\ UNCHANGED <<liquidity, available_balance, exc, inFlight, sent,
                   liqResp, balResp, depResp, borResp,
                   invocationsSinceSleep, sleepsSinceInvocation, invoked>>

\* await make_decision() is entered and get_liquidity() sends its GET
InvokeMakeDecision ==
    /\ pc = "loop"
    /\ pc' = "get_liquidity"
    /\ liquidity' = Data(JNull)
    /\ available_balance' = JNull
    /\ inFlight' = inFlight \cup {"liquidity"}
    /\ sent' = <<liquidity_request>>
    /\ log' = <<>>
    /\ liqResp' = NoResponse
    /\ balResp' = NoResponse
    /\ depResp' = NoResponse
    /\ borResp' = NoResponse
    /\ invocationsSinceSleep' = Saturate(invocationsSinceSleep)
    /\ sleepsSinceInvocation' = 0
    /\ invoked' = TRUE
    /\ UNCHANGED exc

\* get_liquidity() completes; check_balance(asset_to_deposit) sends its GET
LiquidityReturns ==
    /\ pc = "get_liquidity"
    /\ \E resp \in LiquidityResponses :
         LET r == get_liquidity(resp)
         IN  /\ liqResp' = resp
             /\ log' = log \o r.log
             /\ IF r.raised # "none"
                THEN /\ pc' = "crashed"
                     /\ exc' = r.raised
                     /\ inFlight' = inFlight \ {"liquidity"}
                     /\ UNCHANGED <<liquidity, sent>>
                ELSE /\ pc' = "check_balance"
                     /\ liquidity' = r.ret
                     /\ inFlight' = (inFlight \ {"liquidity"}) \cup {"balance"}
                     /\ sent' = Append(sent, balance_request(asset_to_deposit))
                     /\ UNCHANGED exc
    /\ UNCHANGED <<available_balance, balResp, depResp, borResp,
                   invocationsSinceSleep, sleepsSinceInvocation, invoked>>

\* check_balance() completes and its result is bound to available_balance
BalanceReturns ==
    /\ pc = "check_balance"
    /\ \E resp \in BalanceResponses :
         LET r == check_balance(asset_to_deposit, resp)
         IN  /\ balResp' = resp
             /\ log' = log \o r.log
             /\ inFlight' = inFlight \ {"balance"}
             /\ IF r.raised # "none"
                THEN /\ pc' = "crashed"
                     /\ exc' = r.raised
                     /\ UNCHANGED available_balance
                ELSE /\ pc' = "deposit_gate"
                     /\ available_balance' = r.ret
                     /\ UNCHANGED exc
    /\ UNCHANGED <<liquidity, sent, liqResp, depResp, borResp,
                   invocationsSinceSleep, sleepsSinceInvocation, invoked>>

\* variant: the gate reads the balance alone
GateBalanceOnly(liq, bal, threshold) == GreaterEq(bal, threshold)

\* `liquidity and available_balance >= threshold`: the right operand is
\* evaluated only when liquidity is truthy
Gate(liq, bal, threshold) ==
    IF Truthy(liq) THEN GreaterEq(bal, threshold)
    ELSE [exc |-> "none", val |-> FALSE]

\* variant: `>` where the code has `>=`
GateStrict(liq, bal, threshold) ==
    LET g == Gate(liq, bal, threshold + 1)
    IN  [exc |-> g.exc, val |-> g.val]

\* variants of the deposit gate: a strict comparison; the borrow threshold
DepositGateStrict(liq, bal) == GateStrict(liq, bal, amount_to_deposit)
DepositGateCollateral(liq, bal) == Gate(liq, bal, collateral_for_borrow)

\* line 102
DepositGate(liq, bal) == Gate(liq, bal, amount_to_deposit)

\* variants of the borrow gate: a strict comparison; an `elif` that skips
\* the borrow branch when the deposit branch was taken
BorrowGateStrict(liq, bal) == GateStrict(liq, bal, collateral_for_borrow)
BorrowGateElif(liq, bal) ==
    IF DepositGate(liq, bal).exc = "none" /\ DepositGate(liq, bal).val
    THEN [exc |-> "none", val |-> FALSE]
    ELSE Gate(liq, bal, collateral_for_borrow)

\* line 109
BorrowGate(liq, bal) == Gate(liq, bal, collateral_for_borrow)

\* variant: the loop without its sleep
AfterMakeDecisionNoSleep == "loop"

\* where aave_crypto_bot continues when make_decision has returned: the
\* await asyncio.sleep(60) of line 120
AfterMakeDecision == "sleep"

\* lines 102-106: the deposit branch up to its await
DecideDeposit ==
    /\ pc = "deposit_gate"
    /\ LET g == DepositGate(liquidity, available_balance)
       IN  IF g.exc # "none"
           THEN /\ pc' = "crashed"
                /\ exc' = g.exc
                /\ UNCHANGED <<inFlight, sent, log>>
           ELSE IF g.val
           THEN /\ pc' = "deposit"
                /\ log' = Append(log, LogRecord("make_decision", "INFO",
                                                "Conditions are good to deposit.", ""))
                /\ inFlight' = inFlight \cup {"deposit"}
                /\ sent' = Append(sent, deposit_request(amount_to_deposit, asset_to_deposit))
                /\ UNCHANGED exc
           ELSE /\ pc' = "borrow_gate"
                /\ log' = Append(log, LogRecord("make_decision", "INFO",
                                    "Not enough balance or liquidity to deposit.", ""))
                /\ UNCHANGED <<exc, inFlight, sent>>
    /\ UNCHANGED <<liquidity, available_balance, liqResp, balResp, depResp, borResp,
                   invocationsSinceSleep, sleepsSinceInvocation, invoked>>

\* deposit_assets() completes
DepositReturns ==
    /\ pc = "deposit"
    /\ \E resp \in SubmitResponses :
         LET r == deposit_assets(resp)
         IN  /\ depResp' = resp
             /\ log' = log \o r.log
             /\ inFlight' = inFlight \ {"deposit"}
             /\ IF r.raised # "none"
                THEN pc' = "crashed" /\ exc' = r.raised
                ELSE pc' = "borrow_gate" /\ UNCHANGED exc
    /\ UNCHANGED <<liquidity, available_balance, sent, liqResp, balResp, borResp,
                   invocationsSinceSleep, sleepsSinceInvocation, invoked>>

\* lines 109-113: the borrow branch up to its await; when it is not taken
\* make_decision returns and asyncio.sleep(60) begins
DecideBorrow ==
    /\ pc = "borrow_gate"
    /\ LET g == BorrowGate(liquidity, available_balance)
       IN  IF g.exc # "none"
           THEN /\ pc' = "crashed"
                /\ exc' = g.exc
                /\ UNCHANGED <<inFlight, sent, log>>
           ELSE IF g.val
           THEN /\ pc' = "borrow"
                /\ log' = Append(log, LogRecord("make_decision", "INFO",
                                                "Conditions are good to borrow.", ""))
                /\ inFlight' = inFlight \cup {"borrow"}
                /\ sent' = Append(sent, borrow_request(amount_to_borrow, collateral_for_borrow,
                                                       asset_to_borrow, loan_duration))
                /\ UNCHANGED exc
           ELSE /\ pc' = AfterMakeDecision
                /\ log' = Append(log, LogRecord("make_decision", "INFO",
                                    "Not enough collateral or liquidity to borrow.", ""))
                /\ UNCHANGED <<exc, inFlight, sent>>
    /\ UNCHANGED <<liquidity, available_balance, liqResp, balResp, depResp, borResp,
                   invocationsSinceSleep, sleepsSinceInvocation, invoked>>

\* borrow_assets() completes, make_decision returns, asyncio.sleep(60) begins
BorrowReturns ==
    /\ pc = "borrow"
    /\ \E resp \in SubmitResponses :
         LET r == borrow_assets(resp)
         IN  /\ borResp' = resp
             /\ log' = log \o r.log
             /\ inFlight' = inFlight \ {"borrow"}
             /\ IF r.raised # "none"
                THEN pc' = "crashed" /\ exc' = r.raised
                ELSE pc' = AfterMakeDecision /\ UNCHANGED exc
    /\ UNCHANGED <<liquidity, available_balance, sent, liqResp, balResp, depResp,
                   invocationsSinceSleep, sleepsSinceInvocation, invoked>>

\* asyncio.sleep(60) elapses and control returns to the head of the loop
SleepElapses ==
    /\ pc = "sleep"
    /\ pc' = "loop"
    /\ invocationsSinceSleep' = 0
    /\ sleepsSinceInvocation' = Saturate(sleepsSinceInvocation)
    /\ UNCHANGED <<liquidity, available_balance, exc, inFlight, sent, log,
                   liqResp, balResp, depResp, borResp, invoked>>

Next ==
    \/ StartBot
    \/ InvokeMakeDecision
    \/ LiquidityReturns
    \/ BalanceReturns
    \/ DecideDeposit
    \/ DepositReturns
    \/ DecideBorrow
    \/ BorrowReturns
    \/ SleepElapses

Spec == Init /\ [][Next]_vars

\* every remote call eventually returns and every sleep eventually ends; the
\* event loop runs the coroutine whenever it can continue
FairSpec == Spec /\ WF_vars(Next)

----------------------------------------------------------------------------
(* Observations used by the properties *)

Posts == SelectSeq(sent, LAMBDA r : r.method = "POST")
PostUrls == [i \in 1 .. Len(Posts) |-> Posts[i].url]
DepositsSent == SelectSeq(sent, LAMBDA r : r.url = "https://avax-explorer.co/api/aave/deposit")
BorrowsSent == SelectSeq(sent, LAMBDA r : r.url = "https://avax-explorer.co/api/aave/borrow")

LogsOf(fn, level) == SelectSeq(log, LAMBDA l : l.fn = fn /\ l.level = level)
LogsSaying(msg) == SelectSeq(log, LAMBDA l : l.msg = msg)

\* the deposit and the borrow request the settings call for, written out
ExpectedDeposit ==
    [method |-> "POST", url |-> "https://avax-explorer.co/api/aave/deposit",
     keys |-> {"private_key", "amount", "asset"},
     private_key |-> "your_private_key_here", amount |-> 5000, collateral |-> 0,
     asset |-> "DAI", duration |-> 0]

ExpectedBorrow ==
    [method |-> "POST", url |-> "https://avax-explorer.co/api/aave/borrow",
     keys |-> {"private_key", "amount", "collateral", "asset", "duration"},
     private_key |-> "your_private_key_here", amount |-> 1000, collateral |-> 2000,
     asset |-> "USDT", duration |-> 30]

PastDepositGate == pc \in {"deposit", "borrow_gate", "borrow", "sleep"}
PastBorrowGate == pc \in {"borrow", "sleep"}

\* the payload is anything but None
LiquidityPresent == liquidity.type # "null"
\* the payload is none of None, False, 0, "", [], {}
LiquidityNonEmpty == liquidity.type # "null" /\ liquidity.num # 0

BalanceAtLeast(n) == available_balance.type = "number" /\ available_balance.num >= n
BalanceBelow(n) == available_balance.type = "number" /\ available_balance.num < n

\* a call was answered with no connection, with a status outside 2xx / of
\* 400 and above, or with a body that is not JSON
FailedNon2xx(resp) ==
    resp # NoResponse /\ (~resp.transport \/ resp.status \notin 200 .. 299 \/ ~resp.parses)
FailedErrorStatus(resp) ==
    resp # NoResponse /\ (~resp.transport \/ resp.status >= 400 \/ ~resp.parses)

LacksField(resp, key) ==
    resp # NoResponse /\ (resp.data.type # "object" \/ key \notin DOMAIN resp.data.fields)

\* the call was answered with a JSON object that has the field
BodyHas(resp, key) ==
    /\ resp # NoResponse /\ resp.transport /\ resp.status < 400 /\ resp.parses
    /\ resp.data.type = "object" /\ key \in DOMAIN resp.data.fields

StatusIsSuccess(resp) == resp.data.fields["status"] = JStr("success")

----------------------------------------------------------------------------
(* Properties *)

\* C1: every failure of a remote call (no connection, error status,
\* malformed or unexpected JSON, status other than success) is caught inside
\* the call: no exception ever reaches aave_crypto_bot and the coroutine
\* never terminates.
C1_NoExceptionEscapes == exc = "none" /\ pc # "crashed"

\* C2 as stated: once the deposit gate has been passed with a liquidity
\* payload that is not null and a balance >= amount_to_deposit, exactly one
\* deposit request has been issued, carrying the configured amount and asset.
C2_DepositWhenPresent ==
    (PastDepositGate /\ LiquidityPresent /\ BalanceAtLeast(5000))
        => DepositsSent = <<ExpectedDeposit>>

\* C2 amended: the same for a liquidity payload that is truthy (not null,
\* false, 0, "", [] or {}); and no cycle issues more than one deposit.
C2_DepositWhenTruthy ==
    /\ Len(DepositsSent) <= 1
    /\ (PastDepositGate /\ LiquidityNonEmpty /\ BalanceAtLeast(5000))
          => DepositsSent = <<ExpectedDeposit>>

C2_Witness ==
    /\ pc = "borrow_gate" /\ LiquidityNonEmpty
    /\ available_balance = JNum(5000)
    /\ DepositsSent = <<ExpectedDeposit>>

\* C3 as stated: once the borrow gate has been passed with a liquidity
\* payload that is not null and a balance >= collateral_for_borrow, exactly
\* one borrow request has been issued with the configured amount,
\* collateral, asset and duration, whatever the deposit branch did.
C3_BorrowWhenPresent ==
    (PastBorrowGate /\ LiquidityPresent /\ BalanceAtLeast(2000))
        => BorrowsSent = <<ExpectedBorrow>>

\* C3 amended: the same for a liquidity payload that is truthy; and no cycle
\* issues more than one borrow.
C3_BorrowWhenTruthy ==
    /\ Len(BorrowsSent) <= 1
    /\ (PastBorrowGate /\ LiquidityNonEmpty /\ BalanceAtLeast(2000))
          => BorrowsSent = <<ExpectedBorrow>>

\* a borrow issued after a deposit of the same cycle failed
C3_Witness ==
    /\ pc = "borrow" /\ LiquidityNonEmpty
    /\ DepositsSent = <<ExpectedDeposit>> /\ ~depResp.transport
    /\ LogsOf("deposit_assets", "ERROR") # <<>>
    /\ BorrowsSent = <<ExpectedBorrow>>

\* C4 as stated: when the liquidity fetch fails (no connection, a status
\* outside 2xx, a body that is not JSON) get_liquidity returns None and the
\* cycle issues neither a deposit nor a borrow, whatever the balance.
C4_LiquidityFailureNon2xx ==
    FailedNon2xx(liqResp)
        => liquidity = Data(JNull) /\ Posts = <<>> /\ pc # "crashed"

\* C4 amended: the same with "a status of 400 or above" for "a status
\* outside 2xx".
C4_LiquidityFailureErrorStatus ==
    FailedErrorStatus(liqResp)
        => liquidity = Data(JNull) /\ Posts = <<>> /\ pc # "crashed"

C4_Witness ==
    /\ pc = "sleep" /\ liqResp.status = 500
    /\ available_balance = JNum(5001)
    /\ Posts = <<>>

\* C5 as stated: when the balance fetch fails (no connection, a status
\* outside 2xx, a body that is not JSON or has no balance field)
\* check_balance returns 0 and the cycle issues no deposit and no borrow.
C5_BalanceFailureNon2xx ==
    (FailedNon2xx(balResp) \/ LacksField(balResp, "balance"))
        => available_balance = JNum(0) /\ Posts = <<>> /\ pc # "crashed"

\* C5 amended: the same with "a status of 400 or above" for "a status
\* outside 2xx".
C5_BalanceFailureErrorStatus ==
    (FailedErrorStatus(balResp) \/ LacksField(balResp, "balance"))
        => available_balance = JNum(0) /\ Posts = <<>> /\ pc # "crashed"

\* a body without the balance field, met with usable liquidity
C5_Witness ==
    /\ pc = "sleep" /\ LiquidityNonEmpty
    /\ balResp = Response(TRUE, 200, TRUE, Obj(NoFields))
    /\ available_balance = JNum(0)

\* C6: once the deposit gate has been passed with liquidity present and a
\* balance below amount_to_deposit, no deposit request has been issued or
\* answered; the branch has only logged its "not enough" message.
C6_NoDepositBelowAmount ==
    (PastDepositGate /\ LiquidityPresent /\ BalanceBelow(5000))
        => /\ DepositsSent = <<>>
           /\ depResp = NoResponse
           /\ "deposit" \notin inFlight
           /\ Len(LogsSaying("Not enough balance or liquidity to deposit.")) = 1
           /\ LogsSaying("Conditions are good to deposit.") = <<>>
           /\ LogsOf("deposit_assets", "INFO") = <<>>
           /\ LogsOf("deposit_assets", "ERROR") = <<>>

C6_Witness ==
    /\ pc = "borrow_gate" /\ LiquidityNonEmpty
    /\ available_balance = JNum(4999)
    /\ Len(LogsSaying("Not enough balance or liquidity to deposit.")) = 1
    /\ DepositsSent = <<>>

\* what C7 says of one of the two submitting calls, given its response
SubmitLogsAsStated(fn, resp) ==
    BodyHas(resp, "status") =>
        /\ exc = "none"
        /\ IF StatusIsSuccess(resp)
           THEN Len(LogsOf(fn, "INFO")) = 1 /\ LogsOf(fn, "ERROR") = <<>>
           ELSE Len(LogsOf(fn, "ERROR")) = 1 /\ LogsOf(fn, "INFO") = <<>>

SubmitLogsAmended(fn, resp) ==
    BodyHas(resp, "status") =>
        /\ exc = "none"
        /\ IF StatusIsSuccess(resp) /\ BodyHas(resp, "txid")
           THEN /\ Len(LogsOf(fn, "INFO")) = 1
                /\ LogsOf(fn, "INFO")[1].arg = resp.data.fields["txid"].str
                /\ LogsOf(fn, "ERROR") = <<>>
           ELSE Len(LogsOf(fn, "ERROR")) = 1 /\ LogsOf(fn, "INFO") = <<>>

\* C7 as stated: a deposit or borrow response whose status is not "success"
\* (with or without a message) yields one error log and a normal return; one
\* whose status is "success" yields an info log and no error log.
C7_StatusDecidesLog ==
    /\ SubmitLogsAsStated("deposit_assets", depResp)
    /\ SubmitLogsAsStated("borrow_assets", borResp)

\* C7 amended: for a body received with a status below 400, the info log
\* needs status "success" and a txid field; a "success" body without txid
\* is logged at error level like any status other than "success".
C7_StatusAndTxidDecideLog ==
    /\ SubmitLogsAmended("deposit_assets", depResp)
    /\ SubmitLogsAmended("borrow_assets", borResp)

\* a status other than success without a message, logged as an error
C7_Witness ==
    /\ pc = "borrow_gate"
    /\ BodyHas(depResp, "status") /\ ~StatusIsSuccess(depResp)
    /\ ~BodyHas(depResp, "message")
    /\ Len(LogsOf("deposit_assets", "ERROR")) = 1

\* C8: make_decision is invoked exactly once per sleep: at the head of the
\* loop the previous cycle (if any) has completed and exactly one sleep has
\* elapsed since it began; a sleep begins after exactly one invocation; at
\* most one outbound call is in flight, and none outside its await.
C8_OnceCyclePerSleep ==
    /\ Cardinality(inFlight) <= 1
    /\ invocationsSinceSleep <= 1
    /\ sleepsSinceInvocation <= 1
    /\ pc = "loop" =>
          /\ inFlight = {}
          /\ invocationsSinceSleep = 0
          /\ invoked => sleepsSinceInvocation = 1
    /\ pc = "sleep" => inFlight = {} /\ invocationsSinceSleep = 1
    /\ inFlight # {} => pc \in {"get_liquidity", "check_balance", "deposit", "borrow"}

\* the head of the loop after a full cycle of four calls and its sleep
C8_Witness ==
    /\ pc = "loop" /\ invoked /\ sleepsSinceInvocation = 1
    /\ Len(sent) = 4

\* C9: with every call returning and every sleep ending, make_decision is
\* invoked again and again, whatever the remote service answers.
C9_InvokedInfinitelyOften == []<>(pc = "get_liquidity")

\* C10: the deposit and borrow requests of a cycle are none, a borrow, or a
\* deposit followed by a borrow; a deposit without a borrow is seen only while
\* the cycle is still between the two; the borrow is sent after the deposit
\* call has returned.
C10_DepositImpliesBorrow ==
    /\ PostUrls \in {<<>>, <<deposit_url>>, <<borrow_url>>, <<deposit_url, borrow_url>>}
    /\ PostUrls = <<deposit_url>> => pc \in {"deposit", "borrow_gate"}
    /\ PostUrls = <<deposit_url, borrow_url>> =>
          depResp # NoResponse /\ "deposit" \notin inFlight

\* a deposit that failed, followed by the borrow of the same cycle
C10_Witness ==
    /\ pc = "sleep"
    /\ PostUrls = <<deposit_url, borrow_url>>
    /\ depResp.status = 500

====
